---------------------------- MODULE Spec2Model ----------------------------
(***************************************************************************)
(* Model of the noitu word-chain engine: WordChecker (src/src/wordChecker.ts)*)
(* and NextWordFinder (src/src/nextWordFinder.ts).                          *)
(*                                                                         *)
(* A JavaScript string is a sequence of characters.  TLA+ string literals  *)
(* are ASCII only, so each character is written by an ASCII name:          *)
(*   "a" "A" "d" "D"        the ASCII letters                              *)
(*   "a_acute" "A_ACUTE"    U+00E1, U+00C1 (precomposed a / A with acute)  *)
(*   "d_stroke" "D_STROKE"  U+0111, U+0110 (Vietnamese d with stroke)      *)
(*   "comb_acute"           U+0301 (combining acute accent)                *)
(*   "sp" "tab"             U+0020, U+0009 (white space)                   *)
(*   "digit1" "hyphen"      "1", "-"                                      *)
(***************************************************************************)
EXTENDS Integers, Sequences, FiniteSets, TLC

VARIABLES dictionary, normalizedDictionary, history, usedWords, ret

vars == <<dictionary, normalizedDictionary, history, usedWords, ret>>

\* JavaScript's null.
NULL == [js |-> "null"]

\* An optional value is a sequence of at most one element: absent (the
\* JavaScript undefined) or present.
Absent == <<>>
Present(x) == <<x>>

\* ValidationResult.reason when the field is not set.
NoReason == "undefined"

-----------------------------------------------------------------------------
(* Strings *)

RECURSIVE Flatten(_)
Flatten(ss) == IF Len(ss) = 0 THEN <<>> ELSE Head(ss) \o Flatten(Tail(ss))

WhiteSpace == {"sp", "tab"}

CombiningMarks == {"comb_acute"}

\* String.prototype.toLowerCase, one character.
toLowerCaseChar(c) ==
    CASE c = "A" -> "a"
      [] c = "D" -> "d"
      [] c = "A_ACUTE" -> "a_acute"
      [] c = "D_STROKE" -> "d_stroke"
      [] OTHER -> c

toLowerCase(s) == [i \in 1..Len(s) |-> toLowerCaseChar(s[i])]

\* String.prototype.normalize('NFD'): canonical decomposition.  The stroked
\* d has no decomposition.
NFD(s) ==
    Flatten([i \in 1..Len(s) |->
        CASE s[i] = "a_acute" -> <<"a", "comb_acute">>
          [] s[i] = "A_ACUTE" -> <<"A", "comb_acute">>
          [] OTHER -> <<s[i]>>])

\* .replace(/[\u0300-\u036f]/g, '')
StripCombining(s) == SelectSeq(s, LAMBDA c : c \notin CombiningMarks)

\* .replace(/x/g, 'y') for single characters x, y
ReplaceAll(s, x, y) == [i \in 1..Len(s) |-> IF s[i] = x THEN y ELSE s[i]]

normalizeVietnamese(text) ==
    ReplaceAll(ReplaceAll(StripCombining(NFD(text)), "d_stroke", "d"),
               "D_STROKE", "D")

\* String.prototype.trim
RECURSIVE TrimStart(_)
TrimStart(s) ==
    IF Len(s) > 0 /\ Head(s) \in WhiteSpace THEN TrimStart(Tail(s)) ELSE s

RECURSIVE TrimEnd(_)
TrimEnd(s) ==
    IF Len(s) > 0 /\ s[Len(s)] \in WhiteSpace
    THEN TrimEnd(SubSeq(s, 1, Len(s) - 1)) ELSE s

trim(s) == TrimEnd(TrimStart(s))

\* String.prototype.split(/\s+/): the pieces between maximal runs of white
\* space; a run at either end leaves an empty piece there.
RECURSIVE SplitFrom(_, _, _)
SplitFrom(s, i, piece) ==
    IF i > Len(s) THEN <<piece>>
    ELSE IF s[i] \in WhiteSpace
         THEN IF i > 1 /\ s[i - 1] \in WhiteSpace
              THEN SplitFrom(s, i + 1, piece)
              ELSE <<piece>> \o SplitFrom(s, i + 1, <<>>)
         ELSE SplitFrom(s, i + 1, Append(piece, s[i]))

splitWhiteSpace(s) == SplitFrom(s, 1, <<>>)

\* The character class of vietnameseRegex: a-z, A-Z, the lowercase accented
\* Vietnamese letters, the lowercase stroked d, and \s.
VietnameseRegexClass == {"a", "A", "d", "D", "a_acute", "d_stroke"} \cup WhiteSpace

\* vietnameseRegex.test(word): /^[...]+$/
vietnameseRegexTest(word) ==
    Len(word) > 0 /\ \A i \in 1..Len(word) : word[i] \in VietnameseRegexClass

\* Array.prototype.includes
Includes(arr, x) == \E i \in 1..Len(arr) : arr[i] = x

-----------------------------------------------------------------------------
(* Dictionary and the WordChecker *)

\* Object.entries(dictionary): the dictionary is kept as its entry sequence,
\* [key, values] in property order, keys distinct.
ObjectEntries(d) == d

ObjectKeys(d) == [i \in 1..Len(d) |-> d[i].key]

\* Map.prototype.set: a later set of the same key replaces the earlier value.
MapSet(m, k, v) == [x \in (DOMAIN m) \cup {k} |-> IF x = k THEN v ELSE m[x]]

\* Map.prototype.get
MapGet(m, k) == IF k \in DOMAIN m THEN Present(m[k]) ELSE Absent

EmptyMap == [x \in {} |-> <<>>]

\* The constructor's loop over Object.entries(dictionary), from entry i on.
RECURSIVE PreNormalize(_, _, _)
PreNormalize(entries, i, m) ==
    IF i > Len(entries) THEN m
    ELSE LET normalizedKey == normalizeVietnamese(toLowerCase(entries[i].key))
         IN PreNormalize(entries, i + 1,
                MapSet(m, normalizedKey,
                       [j \in 1..Len(entries[i].values) |->
                           toLowerCase(entries[i].values[j])]))

\* new WordChecker(dictionary): the normalizedDictionary it builds.
WordCheckerConstructor(d) == PreNormalize(ObjectEntries(d), 1, EmptyMap)

validateFormat(input) ==
    LET trimmed == trim(input)
        words == SelectSeq(splitWhiteSpace(trimmed), LAMBDA w : Len(w) > 0)
    IN IF Len(trimmed) = 0 THEN [isValid |-> FALSE, words |-> Absent]
       ELSE IF Len(words) # 2 THEN [isValid |-> FALSE, words |-> Absent]
       ELSE IF ~vietnameseRegexTest(words[1]) \/ ~vietnameseRegexTest(words[2])
            THEN [isValid |-> FALSE, words |-> Absent]
       ELSE [isValid |-> TRUE, words |-> words]

isWordInDictionary(firstWord, secondWord) ==
    LET normalizedFirst == normalizeVietnamese(toLowerCase(firstWord))
        normalizedSecond == toLowerCase(secondWord)
        secondWords == MapGet(normalizedDictionary, normalizedFirst)
    IN IF secondWords = Absent THEN FALSE
       ELSE Includes(secondWords[1], normalizedSecond)

\* The used-word key of validateWord: `${normalized first}-${normalized second}`
wordKey(firstWord, secondWord) ==
    normalizeVietnamese(toLowerCase(firstWord)) \o <<"hyphen">>
        \o normalizeVietnamese(toLowerCase(secondWord))

\* validateWord with the used-word check made before the dictionary check.
validateWord_UsedFirst(input, used) ==
    LET formatCheck == validateFormat(input)
    IN IF ~formatCheck.isValid
       THEN [isValid |-> FALSE, reason |-> "invalid_format",
             error |-> Present([text |-> "Tu phai gom dung 2 chu cach nhau boi dau cach",
                                args |-> <<>>])]
       ELSE LET firstWord == formatCheck.words[1]
                secondWord == formatCheck.words[2]
            IN IF wordKey(firstWord, secondWord) \in used
               THEN [isValid |-> FALSE, reason |-> "word_used",
                     error |-> Present([text |-> "Tu nay da duoc su dung trong game",
                                        args |-> <<>>])]
               ELSE IF ~isWordInDictionary(firstWord, secondWord)
               THEN [isValid |-> FALSE, reason |-> "word_not_found",
                     error |-> Present([text |-> "Tu khong co trong tu dien",
                                        args |-> <<firstWord, secondWord>>])]
               ELSE [isValid |-> TRUE, reason |-> NoReason,
                     error |-> Absent]

validateWord(input, used) ==
    LET formatCheck == validateFormat(input)
    IN IF ~formatCheck.isValid
       THEN [isValid |-> FALSE, reason |-> "invalid_format",
             error |-> Present([text |-> "Tu phai gom dung 2 chu cach nhau boi dau cach",
                              args |-> <<>>])]
       ELSE LET firstWord == formatCheck.words[1]
                secondWord == formatCheck.words[2]
            IN IF ~isWordInDictionary(firstWord, secondWord)
               THEN [isValid |-> FALSE, reason |-> "word_not_found",
                     error |-> Present([text |-> "Tu khong co trong tu dien",
                                      args |-> <<firstWord, secondWord>>])]
               ELSE IF wordKey(firstWord, secondWord) \in used
               THEN [isValid |-> FALSE, reason |-> "word_used",
                     error |-> Present([text |-> "Tu nay da duoc su dung trong game",
                                      args |-> <<>>])]
               ELSE [isValid |-> TRUE, reason |-> NoReason,
                     error |-> Absent]

\* canConnect without toLowerCase.
canConnect_NoLowerCase(firstPair, secondPair) ==
    normalizeVietnamese(firstPair.second) = normalizeVietnamese(secondPair.first)

canConnect(firstPair, secondPair) ==
    LET firstEnd == normalizeVietnamese(toLowerCase(firstPair.second))
        secondStart == normalizeVietnamese(toLowerCase(secondPair.first))
    IN firstEnd = secondStart

\* PairsOfEntry pushing the normalized key in place of the original one.
PairsOfEntry_NormalizedKey(e) ==
    [j \in 1..Len(e.values) |->
        [first |-> normalizeVietnamese(toLowerCase(e.key)), second |-> e.values[j]]]

\* The inner loop of getPossibleNextWords: one pair per second word.
PairsOfEntry(e) ==
    [j \in 1..Len(e.values) |-> [first |-> e.key, second |-> e.values[j]]]

\* getPossibleNextWords comparing the lowercased key without normalizing it.
getPossibleNextWords_KeyNotNormalized(endingWord) ==
    LET normalizedEnding == normalizeVietnamese(toLowerCase(endingWord))
        entries == ObjectEntries(dictionary)
    IN Flatten([i \in 1..Len(entries) |->
           IF toLowerCase(entries[i].key) = normalizedEnding
           THEN [j \in 1..Len(entries[i].values) |->
                    [first |-> entries[i].key, second |-> entries[i].values[j]]]
           ELSE <<>>])

getPossibleNextWords(endingWord) ==
    LET normalizedEnding == normalizeVietnamese(toLowerCase(endingWord))
        entries == ObjectEntries(dictionary)
    IN Flatten([i \in 1..Len(entries) |->
           IF normalizeVietnamese(toLowerCase(entries[i].key)) = normalizedEnding
           THEN PairsOfEntry(entries[i])
           ELSE <<>>])

validateConnection(currentWord, newWord) ==
    IF currentWord = NULL
    THEN [isValid |-> TRUE, reason |-> NoReason, error |-> Absent]
    ELSE IF ~canConnect(currentWord, newWord)
    THEN [isValid |-> FALSE, reason |-> "no_connection",
          error |-> Present([text |-> "Tu khong noi duoc voi",
                           args |-> <<newWord.first, newWord.second,
                                      currentWord.second>>])]
    ELSE [isValid |-> TRUE, reason |-> NoReason, error |-> Absent]


-----------------------------------------------------------------------------
(* The NextWordFinder *)

\* NextWordFinder's own copy of normalizeVietnamese.
finderNormalizeVietnamese(text) ==
    ReplaceAll(ReplaceAll(StripCombining(NFD(text)), "d_stroke", "d"),
               "D_STROKE", "D")

\* matchesHistoryWord comparing the syllables as spelled.
matchesHistoryWord_Exact(historyWord, word) ==
    historyWord.first = word.first /\ historyWord.second = word.second

\* The callback of history.some(...) in findNextWord and getAllPossibleMoves.
matchesHistoryWord(historyWord, word) ==
    /\ finderNormalizeVietnamese(toLowerCase(historyWord.first))
           = finderNormalizeVietnamese(toLowerCase(word.first))
    /\ finderNormalizeVietnamese(toLowerCase(historyWord.second))
           = finderNormalizeVietnamese(toLowerCase(word.second))

\* possibleWords.filter(word => !history.some(...))
filterHistory(possibleWords, hist) ==
    SelectSeq(possibleWords,
              LAMBDA word : ~\E i \in 1..Len(hist) : matchesHistoryWord(hist[i], word))

\* this.dictionary[key]: the value sequence of an own property.
PropertyGet(d, key) ==
    LET i == CHOOSE i \in 1..Len(d) : d[i].key = key IN d[i].values

\* availableWords.slice(0, 5)
AlternativesCap == 5

Slice(arr, n) == SubSeq(arr, 1, IF Len(arr) < n THEN Len(arr) ELSE n)

\* Math.floor(Math.random() * n): any index of 0..n-1, here 1-based.
RandomIndex(n) == 1..n

NotFound == [word |-> NULL, found |-> FALSE, alternatives |-> Absent]

\* findFirstWord drawing again when the key it drew has no values: it fails
\* only if no key has a value.
findFirstWord_Retry ==
    LET allWords == ObjectKeys(dictionary)
        found == UNION {
            {[word |-> [first |-> allWords[r1],
                        second |-> PropertyGet(dictionary, allWords[r1])[r2]],
              found |-> TRUE,
              alternatives |-> Absent]
             : r2 \in RandomIndex(Len(PropertyGet(dictionary, allWords[r1])))}
            : r1 \in RandomIndex(Len(allWords))}
    IN IF found = {} THEN {NotFound} ELSE found

\* findFirstWord(): every result the random draws allow.
findFirstWord ==
    LET allWords == ObjectKeys(dictionary)
    IN IF Len(allWords) = 0 THEN {NotFound}
       ELSE UNION {
           LET randomFirstWord == allWords[r1]
               secondWords == PropertyGet(dictionary, randomFirstWord)
           IN IF Len(secondWords) = 0 THEN {NotFound}
              ELSE {[word |-> [first |-> randomFirstWord,
                               second |-> secondWords[r2]],
                     found |-> TRUE,
                     alternatives |-> Absent] : r2 \in RandomIndex(Len(secondWords))}
           : r1 \in RandomIndex(Len(allWords))}

\* findNextWord attaching the filtered (empty) sequence when every candidate
\* is excluded.
findNextWord_FilteredAlternatives(currentWord, hist) ==
    IF currentWord = NULL THEN findFirstWord
    ELSE LET possibleWords == getPossibleNextWords(currentWord.second)
             availableWords == filterHistory(possibleWords, hist)
         IN IF Len(possibleWords) = 0 THEN {NotFound}
            ELSE IF Len(availableWords) = 0
            THEN {[word |-> NULL, found |-> FALSE,
                   alternatives |-> Present(availableWords)]}
            ELSE {[word |-> availableWords[r],
                   found |-> TRUE,
                   alternatives |-> Present(Slice(availableWords, AlternativesCap))]
                  : r \in RandomIndex(Len(availableWords))}

\* findNextWord(currentWord, history): every result the random draw allows.
findNextWord(currentWord, hist) ==
    IF currentWord = NULL THEN findFirstWord
    ELSE LET possibleWords == getPossibleNextWords(currentWord.second)
             availableWords == filterHistory(possibleWords, hist)
         IN IF Len(possibleWords) = 0 THEN {NotFound}
            ELSE IF Len(availableWords) = 0
            THEN {[word |-> NULL, found |-> FALSE,
                   alternatives |-> Present(possibleWords)]}
            ELSE {[word |-> availableWords[r],
                   found |-> TRUE,
                   alternatives |-> Present(Slice(availableWords, AlternativesCap))]
                  : r \in RandomIndex(Len(availableWords))}

\* Math.min(10, allWords.length)
StartingWordsCap == 10

\* The loop of getAllPossibleMoves(null, ...): every randomWords array that
\* n iterations can leave.
RECURSIVE randomStartingWords(_)
randomStartingWords(n) ==
    IF n = 0 THEN {<<>>}
    ELSE LET allWords == ObjectKeys(dictionary)
         IN UNION {
              LET secondWords == PropertyGet(dictionary, allWords[randomIndex])
              IN IF Len(secondWords) > 0
                 THEN {Append(randomWords, [first |-> allWords[randomIndex],
                                            second |-> secondWords[r]])
                       : r \in RandomIndex(Len(secondWords))}
                 ELSE {randomWords}
              : randomWords \in randomStartingWords(n - 1),
                randomIndex \in RandomIndex(Len(allWords))}

\* getAllPossibleMoves returning at most AlternativesCap moves.
getAllPossibleMoves_Capped(currentWord, hist) ==
    IF currentWord = NULL
    THEN LET n == Len(ObjectKeys(dictionary))
         IN randomStartingWords(IF n < StartingWordsCap THEN n ELSE StartingWordsCap)
    ELSE {Slice(filterHistory(getPossibleNextWords(currentWord.second), hist),
                AlternativesCap)}

\* getAllPossibleMoves(currentWord, history): every result the draws allow.
getAllPossibleMoves(currentWord, hist) ==
    IF currentWord = NULL
    THEN LET n == Len(ObjectKeys(dictionary))
         IN randomStartingWords(IF n < StartingWordsCap THEN n ELSE StartingWordsCap)
    ELSE {filterHistory(getPossibleNextWords(currentWord.second), hist)}

\* canContinue asking for more than one move.
canContinue_MoreThanOne(possibleMoves) == Len(possibleMoves) > 1

\* canContinue's return value for the possibleMoves it computed.
canContinue(possibleMoves) == Len(possibleMoves) > 0


-----------------------------------------------------------------------------
(* The inputs explored *)

\* Bound on the size of a dictionary: its keys plus its values.
MaxSize == 4

\* Bound on the length of the caller's history.
MaxHist == 1

\* The syllables of the dictionaries and word pairs explored: "a", "\u00C1"
\* (which differ in case and accent and normalize alike) and "\u0111a".
Syllables == {<<"a">>, <<"A_ACUTE">>, <<"d_stroke", "a">>}

WordPairs == [first : Syllables, second : Syllables]

SeqsUpTo(S, n) == UNION {[1..k -> S] : k \in 0..n}

RECURSIVE TotalLen(_)
TotalLen(ss) == IF Len(ss) = 0 THEN 0 ELSE Len(Head(ss)) + TotalLen(Tail(ss))

\* The key sequences of an object: distinct property names.
KeySeqs ==
    {ks \in SeqsUpTo(Syllables, Cardinality(Syllables)) :
        \A i, j \in 1..Len(ks) : i # j => ks[i] # ks[j]}

\* Every dictionary over Syllables of size at most n; a key may have no
\* values.
DictionariesUpTo(n) ==
    UNION {
        {[i \in 1..Len(ks) |-> [key |-> ks[i], values |-> vs[i]]]
            : vs \in {v \in [1..Len(ks) -> SeqsUpTo(Syllables, n - Len(ks))] :
                        Len(ks) + TotalLen(v) <= n}}
        : ks \in {k \in KeySeqs : Len(k) <= n}}

Dictionaries == DictionariesUpTo(MaxSize)

\* Join two tokens with one space.
TwoWords(a, b) == a \o <<"sp">> \o b

\* The inputs given to validateWord: every two-syllable input over
\* Syllables and their lowercase forms, and malformed or oddly spaced ones.
InputTokens == Syllables \cup {toLowerCase(x) : x \in Syllables}

Inputs ==
    {TwoWords(a, b) : a \in InputTokens, b \in InputTokens}
    \cup { <<>>, <<"sp">>, <<"a">>,
           <<"a", "sp", "a", "sp", "a">>,
           <<"sp", "a", "tab", "sp", "a", "sp">>,
           <<"a", "sp", "digit1">>,
           <<"a", "hyphen", "a">>,
           <<"a", "comb_acute", "sp", "a">>,
           <<"D_STROKE", "a", "sp", "a">>,
           <<"D", "sp", "A">> }

\* currentWord arguments of validateConnection: null or a word pair.
CurrentWords == {NULL} \cup WordPairs

\* currentWord arguments of the NextWordFinder, which reads only
\* currentWord.second: null or a pair ending in each syllable.
FinderCurrentWords ==
    {NULL} \cup {[first |-> <<"a">>, second |-> s] : s \in Syllables}

\* Keys a caller may hold in its used-word set: the key of every word pair,
\* and one that is not in normalized form ("\u00C1-a").
UsedKeys ==
    {wordKey(w.first, w.second) : w \in WordPairs}
        \cup {<<"A_ACUTE", "hyphen", "a">>}

\* Dictionaries shaped like the sample dictionary of tests/index.test.ts
\* (a chain of keys), with two keys that normalize alike, and empty.
SampleDictionaries ==
    { <<>>,
      << [key |-> <<"a">>, values |-> << <<"A_ACUTE">>, <<"d_stroke", "a">> >>],
         [key |-> <<"d_stroke", "a">>, values |-> << <<"a">> >>] >>,
      << [key |-> <<"a">>, values |-> << <<"a">> >>],
         [key |-> <<"A_ACUTE">>, values |-> << <<"d_stroke", "a">> >>],
         [key |-> <<"d_stroke", "a">>, values |-> <<>>] >> }

\* Value sequences of the dictionaries with many candidates: none, two or
\* every syllable.
ManyValues ==
    { <<>>,
      << <<"a">>, <<"d_stroke", "a">> >>,
      << <<"a">>, <<"A_ACUTE">>, <<"d_stroke", "a">> >> }

\* Dictionaries of at most two keys, each with one of ManyValues: two keys
\* that normalize alike give their syllable up to six candidates, more than
\* AlternativesCap.
ManyCandidateDictionaries ==
    UNION {
        {[i \in 1..Len(ks) |-> [key |-> ks[i], values |-> vs[i]]]
            : vs \in [1..Len(ks) -> ManyValues]}
        : ks \in {k \in KeySeqs : Len(k) <= 2}}

-----------------------------------------------------------------------------
(* State machine: a constructed WordChecker and NextWordFinder over one    *)
(* dictionary, the caller's history and used-word set, and the call in     *)
(* progress: ret is Idle between calls and holds a call's arguments and    *)
(* return value until the caller takes it.                                 *)

Idle == [op |-> "idle"]

InitOver(dictionaries) ==
    /\ dictionary \in dictionaries
    /\ normalizedDictionary = WordCheckerConstructor(dictionary)
    /\ history = <<>>
    /\ usedWords = {}
    /\ ret = Idle

\* The caller plays a word pair: it appends it to its history and adds its
\* key to its used-word set.
CallerPlays ==
    /\ ret = Idle
    /\ Len(history) < MaxHist
    /\ \E w \in WordPairs :
          /\ history' = Append(history, w)
          /\ usedWords' = usedWords \cup {wordKey(w.first, w.second)}
    /\ UNCHANGED <<dictionary, normalizedDictionary, ret>>

\* The caller adds a key to its used-word set.
CallerMarksUsed ==
    /\ ret = Idle
    /\ Cardinality(usedWords) < MaxHist
    /\ \E k \in UsedKeys : usedWords' = usedWords \cup {k}
    /\ UNCHANGED <<dictionary, normalizedDictionary, history, ret>>

\* The caller takes the value a call returned.
CallerTakesResult ==
    /\ ret # Idle
    /\ ret' = Idle
    /\ UNCHANGED <<dictionary, normalizedDictionary, history, usedWords>>

ValidateWord ==
    /\ ret = Idle
    /\ \E input \in Inputs :
          ret' = [op |-> "validateWord", input |-> input,
                  result |-> validateWord(input, usedWords)]
    /\ UNCHANGED <<dictionary, normalizedDictionary, history, usedWords>>

CanConnect ==
    /\ ret = Idle
    /\ \E a \in WordPairs, b \in WordPairs :
          ret' = [op |-> "canConnect", firstPair |-> a, secondPair |-> b,
                  result |-> canConnect(a, b)]
    /\ UNCHANGED <<dictionary, normalizedDictionary, history, usedWords>>

GetPossibleNextWords ==
    /\ ret = Idle
    /\ \E e \in Syllables :
          ret' = [op |-> "getPossibleNextWords", endingWord |-> e,
                  result |-> getPossibleNextWords(e)]
    /\ UNCHANGED <<dictionary, normalizedDictionary, history, usedWords>>

ValidateConnection ==
    /\ ret = Idle
    /\ \E c \in CurrentWords, w \in WordPairs :
          ret' = [op |-> "validateConnection", currentWord |-> c, newWord |-> w,
                  result |-> validateConnection(c, w)]
    /\ UNCHANGED <<dictionary, normalizedDictionary, history, usedWords>>

\* findNextWord recording the word it found in the caller's history.
FindNextWord_RecordsWord ==
    /\ ret = Idle
    /\ \E c \in FinderCurrentWords :
          \E r \in findNextWord(c, history) :
             /\ ret' = [op |-> "findNextWord", currentWord |-> c, result |-> r]
             /\ history' = IF r.found THEN Append(history, r.word) ELSE history
    /\ UNCHANGED <<dictionary, normalizedDictionary, usedWords>>

FindNextWord ==
    /\ ret = Idle
    /\ \E c \in FinderCurrentWords :
          \E r \in findNextWord(c, history) :
             ret' = [op |-> "findNextWord", currentWord |-> c, result |-> r]
    /\ UNCHANGED <<dictionary, normalizedDictionary, history, usedWords>>

GetAllPossibleMoves ==
    /\ ret = Idle
    /\ \E c \in FinderCurrentWords :
          \E r \in getAllPossibleMoves(c, history) :
             ret' = [op |-> "getAllPossibleMoves", currentWord |-> c, result |-> r]
    /\ UNCHANGED <<dictionary, normalizedDictionary, history, usedWords>>

CanContinue ==
    /\ ret = Idle
    /\ \E c \in FinderCurrentWords :
          \E possibleMoves \in getAllPossibleMoves(c, history) :
             ret' = [op |-> "canContinue", currentWord |-> c,
                     possibleMoves |-> possibleMoves,
                     result |-> canContinue(possibleMoves)]
    /\ UNCHANGED <<dictionary, normalizedDictionary, history, usedWords>>

\* A session: any sequence of calls of the seven public operations on an
\* engine built over a sample dictionary.
Init == InitOver(SampleDictionaries)

Next ==
    \/ CallerPlays
    \/ CallerTakesResult
    \/ ValidateWord
    \/ CanConnect
    \/ GetPossibleNextWords
    \/ ValidateConnection
    \/ FindNextWord
    \/ GetAllPossibleMoves
    \/ CanContinue

Spec == Init /\ [][Next]_vars

\* The WordChecker's dictionary operations over every dictionary and every
\* used-word set within the bounds.
InitAll == InitOver(Dictionaries)

NextChecker ==
    \/ CallerMarksUsed
    \/ CallerTakesResult
    \/ ValidateWord
    \/ GetPossibleNextWords

SpecChecker == InitAll /\ [][NextChecker]_vars

\* The connection checks, which read no dictionary, over every pair of pairs.
NextConnect ==
    \/ CallerTakesResult
    \/ CanConnect
    \/ ValidateConnection

SpecConnect == InitAll /\ [][NextConnect]_vars

\* One call of findNextWord, over every dictionary and every history within
\* the bounds.
NextFinder ==
    \/ CallerPlays
    \/ FindNextWord

SpecFinder == InitAll /\ [][NextFinder]_vars

\* One call of getAllPossibleMoves or canContinue, over every history within
\* the bounds and every dictionary of size less than MaxSize (a call with a
\* null currentWord has one result for each run of random draws).
InitMoves == InitOver(DictionariesUpTo(MaxSize - 1))

NextMoves ==
    \/ CallerPlays
    \/ GetAllPossibleMoves
    \/ CanContinue

SpecMoves == InitMoves /\ [][NextMoves]_vars

\* One call of findNextWord or getAllPossibleMoves over dictionaries with up
\* to six candidates for a syllable, and every history within the bounds.
InitMany == InitOver(ManyCandidateDictionaries)

NextMany ==
    \/ CallerPlays
    \/ FindNextWord
    \/ GetAllPossibleMoves

SpecMany == InitMany /\ [][NextMany]_vars

\* The game loop of examples/demo.ts and the README: the first word is
\* findNextWord(null, []); every found word is pushed to the history and
\* becomes the current word of the next call; the loop ends at the first
\* result that is not found.
GameStart ==
    /\ ret = Idle
    /\ history = <<>>
    /\ \E r \in findNextWord(NULL, <<>>) :
          /\ ret' = [op |-> "game", currentWord |-> NULL, result |-> r]
          /\ history' = IF r.found THEN Append(history, r.word) ELSE history
    /\ UNCHANGED <<dictionary, normalizedDictionary, usedWords>>

\* GameMove comparing a candidate with the last history entry only.
GameMove_LastEntryOnly ==
    /\ ret.op = "game"
    /\ ret.result.found
    /\ \E r \in findNextWord(ret.result.word, <<history[Len(history)]>>) :
          /\ ret' = [op |-> "game", currentWord |-> ret.result.word, result |-> r]
          /\ history' = IF r.found THEN Append(history, r.word) ELSE history
    /\ UNCHANGED <<dictionary, normalizedDictionary, usedWords>>

GameMove ==
    /\ ret.op = "game"
    /\ ret.result.found
    /\ \E r \in findNextWord(ret.result.word, history) :
          /\ ret' = [op |-> "game", currentWord |-> ret.result.word, result |-> r]
          /\ history' = IF r.found THEN Append(history, r.word) ELSE history
    /\ UNCHANGED <<dictionary, normalizedDictionary, usedWords>>

NextGame ==
    \/ GameStart
    \/ GameMove

\* The games over the sample dictionaries and over every dictionary of size
\* less than MaxSize.
InitGame == InitOver(DictionariesUpTo(MaxSize - 1) \cup SampleDictionaries)

\* The loop is synchronous code: it keeps running until it ends.
SpecGame == InitGame /\ [][NextGame]_vars /\ WF_vars(NextGame)


-----------------------------------------------------------------------------
(* Notions the claims are stated in *)

\* The normalized pair key of a word pair, as a pair.
PairKey(w) ==
    <<normalizeVietnamese(toLowerCase(w.first)),
      normalizeVietnamese(toLowerCase(w.second))>>

\* Some entry of the caller's history has the normalized pair key of w.
InHistory(w) == \E i \in 1..Len(history) : PairKey(history[i]) = PairKey(w)

\* w is a pair of the dictionary in its original spelling.
Grounded(w) ==
    \E i \in 1..Len(dictionary) :
        /\ w.first = dictionary[i].key
        /\ \E j \in 1..Len(dictionary[i].values) : w.second = dictionary[i].values[j]

\* The tokens of an input: its maximal runs of characters that are not white
\* space, in order.
TokenStarts(s) ==
    {i \in 1..Len(s) : s[i] \notin WhiteSpace /\ (i = 1 \/ s[i - 1] \in WhiteSpace)}

TokenAt(s, i) ==
    LET end == CHOOSE e \in i..Len(s) :
                   /\ \A k \in i..e : s[k] \notin WhiteSpace
                   /\ (e = Len(s) \/ s[e + 1] \in WhiteSpace)
    IN SubSeq(s, i, end)

\* The letters validateWord allows in a token.
AllowedLetters == {"a", "A", "d", "D", "a_acute", "d_stroke"}

FormatValid(s) ==
    /\ Cardinality(TokenStarts(s)) = 2
    /\ \A i \in 1..Len(s) : s[i] \in AllowedLetters \cup WhiteSpace

FirstToken(s) == TokenAt(s, CHOOSE i \in TokenStarts(s) : \A k \in TokenStarts(s) : i <= k)

SecondToken(s) == TokenAt(s, CHOOSE i \in TokenStarts(s) : \A k \in TokenStarts(s) : i >= k)

\* The letter a character is a cased or accented form of.
BaseLetter(c) ==
    CASE c \in {"a", "A", "a_acute", "A_ACUTE"} -> "a"
      [] c \in {"d", "D", "d_stroke", "D_STROKE"} -> "d"
      [] OTHER -> c

\* Two syllables that differ at most in letter case and diacritics.
SameLetters(x, y) ==
    Len(x) = Len(y) /\ \A i \in 1..Len(x) : BaseLetter(x[i]) = BaseLetter(y[i])

\* The keys of the dictionary that equal v under normalize(lower(.)).
KeysMatching(v) ==
    {i \in 1..Len(dictionary) :
        normalizeVietnamese(toLowerCase(dictionary[i].key))
            = normalizeVietnamese(toLowerCase(v))}

\* v is the second syllable of some pair of the dictionary.
IsValueOfDictionary(v) ==
    \E i \in 1..Len(dictionary) : \E j \in 1..Len(dictionary[i].values) :
        dictionary[i].values[j] = v

\* The candidates of a syllable v: the pairs (key, value) of the dictionary
\* whose key equals v under normalize(lower(.)), in dictionary order.
CandidatesOf(v) ==
    Flatten([i \in 1..Len(dictionary) |->
        IF i \in KeysMatching(v)
        THEN [j \in 1..Len(dictionary[i].values) |->
                 [first |-> dictionary[i].key, second |-> dictionary[i].values[j]]]
        ELSE <<>>])

\* The candidates of v that are not in the caller's history, in order.
AvailableOf(v) == SelectSeq(CandidatesOf(v), LAMBDA w : ~InHistory(w))

Min(a, b) == IF a < b THEN a ELSE b

\* The distinct normalized pair keys of the pairs of the dictionary.
DictionaryPairKeys ==
    UNION {{PairKey([first |-> dictionary[i].key, second |-> dictionary[i].values[j]])
               : j \in 1..Len(dictionary[i].values)}
           : i \in 1..Len(dictionary)}

\* The two cases of each letter.
CasePairs == {{"a", "A"}, {"d", "D"}, {"a_acute", "A_ACUTE"}, {"d_stroke", "D_STROKE"}}

\* The characters c may become when its letter case is changed.
CaseForms(c) == {c} \cup UNION {p \in CasePairs : c \in p}

\* The inputs that differ from s at most in the case of letters.
CaseVariants(s) == {t \in [1..Len(s) -> UNION {CaseForms(s[i]) : i \in 1..Len(s)}] :
                        \A i \in 1..Len(s) : t[i] \in CaseForms(s[i])}

-----------------------------------------------------------------------------
(* Claims *)

\* C1 (as stated): findNextWord(current, history), for a present or an absent
\* current, never returns with found = true a word whose normalized pair key
\* is that of an entry of history.
C1_NoHistoryWordReturned ==
    (ret.op = "findNextWord" /\ ret.result.found) => ~InHistory(ret.result.word)

\* C1 (amended): for a present current, findNextWord(current, history) never
\* returns with found = true a word whose normalized pair key is that of an
\* entry of history.
C1_NoHistoryWordReturnedPresent ==
    (ret.op = "findNextWord" /\ ret.currentWord # NULL /\ ret.result.found)
        => ~InHistory(ret.result.word)

\* C1 witness: a word is found for a present current although the history
\* excludes another candidate.
C1_Witness ==
    /\ ret.op = "findNextWord"
    /\ ret.currentWord # NULL
    /\ ret.result.found
    /\ LET c == getPossibleNextWords(ret.currentWord.second)
       IN \E i \in 1..Len(c) : InHistory(c[i])

\* C2: every authored pair (k, v), v in D[k], passes the dictionary-membership
\* check isWordInDictionary(k, v), also when several keys normalize alike.
C2_AuthoredPairsInDictionary ==
    \A i \in 1..Len(dictionary) : \A j \in 1..Len(dictionary[i].values) :
        isWordInDictionary(dictionary[i].key, dictionary[i].values[j])

\* C3: validateWord answers invalid_format if the input is not two tokens of
\* allowed letters, else word_not_found if the pair is not in the dictionary,
\* else word_used if its key is in the used set, else valid with no reason
\* and no error; it never answers no_connection or invalid_characters.
C3_ValidateWordPriority ==
    ret.op = "validateWord" =>
        LET r == ret.result
            s == ret.input
        IN /\ r.reason \in {"invalid_format", "word_not_found", "word_used", NoReason}
           /\ r.isValid <=> (r.reason = NoReason)
           /\ r.isValid <=> (r.error = Absent)
           /\ IF ~FormatValid(s) THEN r.reason = "invalid_format"
              ELSE IF ~isWordInDictionary(FirstToken(s), SecondToken(s))
                   THEN r.reason = "word_not_found"
              ELSE IF wordKey(FirstToken(s), SecondToken(s)) \in usedWords
                   THEN r.reason = "word_used"
              ELSE r.isValid

\* C3 witness: a pair that is not in the dictionary is answered word_not_found
\* although its key is in the used set.
C3_Witness ==
    /\ ret.op = "validateWord"
    /\ ret.result.reason = "word_not_found"
    /\ FormatValid(ret.input)
    /\ wordKey(FirstToken(ret.input), SecondToken(ret.input)) \in usedWords

\* C4: for a present current, findNextWord returns not-found without
\* alternatives if there is no candidate, and not-found with the full
\* candidate sequence as alternatives if every candidate is in the history.
C4_NotFoundAlternatives ==
    (ret.op = "findNextWord" /\ ret.currentWord # NULL) =>
        LET c == getPossibleNextWords(ret.currentWord.second)
        IN /\ Len(c) = 0 =>
                ret.result = [word |-> NULL, found |-> FALSE, alternatives |-> Absent]
           /\ (Len(c) > 0 /\ \A i \in 1..Len(c) : InHistory(c[i])) =>
                ret.result = [word |-> NULL, found |-> FALSE,
                              alternatives |-> Present(c)]

\* C4 witness: every candidate of a present current is in the history.
C4_Witness ==
    /\ ret.op = "findNextWord"
    /\ ret.currentWord # NULL
    /\ ~ret.result.found
    /\ ret.result.alternatives # Absent
    /\ Len(ret.result.alternatives[1]) > 0

\* C5: a word found for a present current is a pair of the dictionary in its
\* original spelling and chains to current.
C5_FoundWordGroundedAndChained ==
    (ret.op = "findNextWord" /\ ret.currentWord # NULL /\ ret.result.found) =>
        /\ Grounded(ret.result.word)
        /\ normalizeVietnamese(toLowerCase(ret.result.word.first))
              = normalizeVietnamese(toLowerCase(ret.currentWord.second))
        /\ canConnect(ret.currentWord, ret.result.word)

\* C5 witness: the word found chains to current through a key spelled
\* differently from current's second syllable.
C5_Witness ==
    /\ ret.op = "findNextWord"
    /\ ret.currentWord # NULL
    /\ ret.result.found
    /\ ret.result.word.first # ret.currentWord.second

\* C6: canConnect(a, b) is true iff normalize(lower(a.second)) equals
\* normalize(lower(b.first)); it depends on a.second and b.first only, and
\* syllables differing only in case or diacritics connect.
C6_CanConnect ==
    ret.op = "canConnect" =>
        LET a == ret.firstPair
            b == ret.secondPair
        IN /\ ret.result <=> (normalizeVietnamese(toLowerCase(a.second))
                                = normalizeVietnamese(toLowerCase(b.first)))
           /\ \A x \in Syllables, y \in Syllables :
                 canConnect([first |-> x, second |-> a.second],
                            [first |-> b.first, second |-> y]) = ret.result
           /\ SameLetters(a.second, b.first) => ret.result

\* C6 witness: two syllables that differ in case and accent connect.
C6_Witness ==
    /\ ret.op = "canConnect"
    /\ ret.result
    /\ ret.firstPair.second # ret.secondPair.first

\* C7 (as stated): if the second syllable v of a pair of the dictionary is a
\* key of the dictionary, directly or under normalize(lower(.)), then
\* getPossibleNextWords(v) is not empty.
C7_KeyHasNextWords ==
    (/\ ret.op = "getPossibleNextWords"
     /\ IsValueOfDictionary(ret.endingWord)
     /\ KeysMatching(ret.endingWord) # {}) => Len(ret.result) > 0

\* C7 (amended): if the second syllable v of a pair of the dictionary is,
\* directly or under normalize(lower(.)), a key of the dictionary that has at
\* least one value, then getPossibleNextWords(v) is not empty.
C7_KeyWithValuesHasNextWords ==
    (/\ ret.op = "getPossibleNextWords"
     /\ IsValueOfDictionary(ret.endingWord)
     /\ \E i \in KeysMatching(ret.endingWord) : Len(dictionary[i].values) > 0)
        => Len(ret.result) > 0

\* C7 witness: v is a key with values only under normalization.
C7_Witness ==
    /\ ret.op = "getPossibleNextWords"
    /\ IsValueOfDictionary(ret.endingWord)
    /\ \A i \in 1..Len(dictionary) : dictionary[i].key # ret.endingWord
    /\ \E i \in KeysMatching(ret.endingWord) : Len(dictionary[i].values) > 0
    /\ Len(ret.result) > 0

\* C8: canContinue is false exactly when the moves it computed are empty; it
\* is false for an absent current and an empty dictionary, and for a present
\* current it is true iff some candidate is not in the history.
C8_CanContinue ==
    ret.op = "canContinue" =>
        /\ ~ret.result <=> (Len(ret.possibleMoves) = 0)
        /\ (ret.currentWord = NULL /\ Len(dictionary) = 0) => ~ret.result
        /\ ret.currentWord # NULL =>
              LET c == getPossibleNextWords(ret.currentWord.second)
              IN ret.result <=> \E i \in 1..Len(c) : ~InHistory(c[i])

\* C8 witness: canContinue is false for a present current whose candidates
\* are all in the history.
C8_Witness ==
    /\ ret.op = "canContinue"
    /\ ret.currentWord # NULL
    /\ ~ret.result
    /\ Len(getPossibleNextWords(ret.currentWord.second)) > 0

\* C9: no step changes the dictionary or the normalized index, and a call of
\* a public operation changes neither the caller's history nor its used set.
C9_CallsChangeNothing ==
    [][/\ dictionary' = dictionary
       /\ normalizedDictionary' = normalizedDictionary
       /\ (ret = Idle /\ ret' # Idle) =>
              (history' = history /\ usedWords' = usedWords)]_vars

\* C9 witness: findNextWord has found a word with a history and a used set
\* that are not empty.
C9_Witness ==
    /\ ret.op = "findNextWord"
    /\ ret.result.found
    /\ Len(history) > 0
    /\ usedWords # {}

\* C10: the index entry of every normalized key is the concatenation of the
\* lowercased value sequences of all keys that normalize to it.
C10_IndexMergesKeys ==
    /\ DOMAIN normalizedDictionary
          = {normalizeVietnamese(toLowerCase(dictionary[i].key)) : i \in 1..Len(dictionary)}
    /\ \A n \in DOMAIN normalizedDictionary :
          normalizedDictionary[n]
             = Flatten([i \in 1..Len(dictionary) |->
                   IF normalizeVietnamese(toLowerCase(dictionary[i].key)) = n
                   THEN [j \in 1..Len(dictionary[i].values) |->
                            toLowerCase(dictionary[i].values[j])]
                   ELSE <<>>])

\* C11: for a present current, getAllPossibleMoves returns the whole sequence
\* of candidates that are not in the history, in dictionary order; and when
\* findNextWord finds a word, its alternatives are the first min(5, n)
\* entries of that sequence and the word is one of its n entries.
C11_FullMovesAndPreview ==
    /\ (ret.op = "getAllPossibleMoves" /\ ret.currentWord # NULL) =>
           ret.result = AvailableOf(ret.currentWord.second)
    /\ (ret.op = "findNextWord" /\ ret.currentWord # NULL /\ ret.result.found) =>
           LET available == AvailableOf(ret.currentWord.second)
               n == Len(available)
           IN /\ ret.result.alternatives = Present(SubSeq(available, 1, Min(5, n)))
              /\ \E i \in 1..n : ret.result.word = available[i]

\* C11 witness: findNextWord finds, among more than five available
\* candidates, a word that is not among its alternatives.
C11_Witness ==
    /\ ret.op = "findNextWord"
    /\ ret.currentWord # NULL
    /\ ret.result.found
    /\ Len(AvailableOf(ret.currentWord.second)) > 5
    /\ Len(ret.result.alternatives[1]) = 5
    /\ ~Includes(ret.result.alternatives[1], ret.result.word)

\* C12: findNextWord(null, history) returns not-found for a dictionary with
\* no key; a found result is a pair (k, v) of the dictionary with no
\* alternatives; a not-found result has no word and no alternatives and
\* needs a key without values (or no key at all); and every key without
\* values makes not-found a possible result, whatever the other keys hold.
C12_FindFirstWord ==
    /\ (ret.op = "findNextWord" /\ ret.currentWord = NULL) =>
           /\ Len(dictionary) = 0 =>
                 ret.result = [word |-> NULL, found |-> FALSE, alternatives |-> Absent]
           /\ ret.result.alternatives = Absent
           /\ IF ret.result.found
              THEN Grounded(ret.result.word)
              ELSE /\ ret.result.word = NULL
                   /\ \/ Len(dictionary) = 0
                      \/ \E i \in 1..Len(dictionary) : Len(dictionary[i].values) = 0
    /\ (\E i \in 1..Len(dictionary) : Len(dictionary[i].values) = 0) =>
           [word |-> NULL, found |-> FALSE, alternatives |-> Absent]
               \in findNextWord(NULL, history)

\* C12 witness: findNextWord(null, history) returns not-found although a key
\* of the dictionary has values.
C12_Witness ==
    /\ ret.op = "findNextWord"
    /\ ret.currentWord = NULL
    /\ ~ret.result.found
    /\ \E i \in 1..Len(dictionary) : Len(dictionary[i].values) > 0

\* C13: every word that findNextWord finds for a present current, and every
\* word that getPossibleNextWords lists, passes the membership check
\* isWordInDictionary of the same dictionary and connects to current under
\* validateConnection.
C13_SelectorValidatorAgree ==
    /\ (ret.op = "findNextWord" /\ ret.currentWord # NULL /\ ret.result.found) =>
           /\ isWordInDictionary(ret.result.word.first, ret.result.word.second)
           /\ validateConnection(ret.currentWord, ret.result.word).isValid
    /\ \A current \in WordPairs :
           LET listed == getPossibleNextWords(current.second)
           IN \A i \in 1..Len(listed) :
                 /\ isWordInDictionary(listed[i].first, listed[i].second)
                 /\ validateConnection(current, listed[i]).isValid

C15_ValidateWordCaseInsensitive ==
    ret.op = "validateWord" =>
        \A t \in CaseVariants(ret.input) :
            /\ validateWord(t, usedWords).isValid = ret.result.isValid
            /\ validateWord(t, usedWords).reason = ret.result.reason

=============================================================================
